---- MODULE Spec2Model ----
(***************************************************************************)
(* A model of the game engine of src/app.py (AdvancedPhishGame): level     *)
(* progression, tolerant matching, scoring, lives, the per-level countdown *)
(* driven by Tk's after() callbacks, pause/resume, restart and the end of  *)
(* the game.                                                               *)
(*                                                                         *)
(* Strings are sequences of one-character strings.  Every handler of the   *)
(* class is an operator from the object's state (a record with one field   *)
(* per attribute) to the state it leaves behind, so that a handler calling *)
(* another one is the composition the code performs; each action of the    *)
(* state machine is one whole handler run, one turn of the Tk event loop.  *)
(***************************************************************************)
EXTENDS Integers, Sequences, FiniteSets, TLC

(***************************************************************************)
(* Bounds of the model.                                                    *)
(***************************************************************************)
\* longest history (self.results) the model lets a session accumulate
MaxResults == 3

(***************************************************************************)
(* Configuration (src/app.py:31-35, 38-108).                               *)
(***************************************************************************)
\* The countdown is explored second by second, so the model runs it from
\* shorter limits than the source's: BASE_TIME is 40 there and MIN_TIME, the
\* floor max(10, ...) of load_level, is 10.  Both are bounds of the model.
BASE_TIME == 5
MIN_TIME == 4
\* The lives a run starts with (3 in __init__ and restart_game).  The model's
\* corpus has fewer levels than a player has lives in the source, so the
\* model starts a run with fewer: a run can then end for want of lives
\* before its last level, as the source's runs of 5 levels can.
START_LIVES == 1
HINT_COST_BASE == 6
BONUS_PERFECT == 15
\* the literals of load_level, on_submit, use_hint and __init__
TIME_STEP == 6
BASE_POINTS == 10
SPEED_DIV == 3
WRONG_PENALTY == 3
HINT_COST_STEP == 3
HINT_COST_MAX == 20
MAX_LEVELS == 5
MAX_SAMPLE == 6

Min(a, b) == IF a <= b THEN a ELSE b
Max(a, b) == IF a >= b THEN a ELSE b

\* The characters the model's strings are made of.
Alphabet == {"a", "b", "c", "A", " "}

\* The corpus: a stand-in for EMAILS with the same shape (a title and an
\* ordered list of unique flags), over the model's alphabet.  The first
\* template has two overlapping flags, one with an upper-case letter; the
\* second has one flag of two words.
EMAILS ==
  << [title |-> "T1", flags |-> << <<"A", "b">>, <<"b">> >>],
     [title |-> "T2", flags |-> << <<"c", " ", "a", "c", "b">> >>] >>

(***************************************************************************)
(* str methods used by fuzzy_match and on_submit.                          *)
(***************************************************************************)
IsSpace(c) == c = " "

LowerChar(c) == IF c = "A" THEN "a" ELSE c

\* str.lower()
lower(s) == [i \in 1..Len(s) |-> LowerChar(s[i])]

\* str.strip(): drop leading and trailing whitespace
RECURSIVE lstrip(_)
lstrip(s) == IF s # <<>> /\ IsSpace(Head(s)) THEN lstrip(Tail(s)) ELSE s

RECURSIVE rstrip(_)
rstrip(s) ==
  IF s # <<>> /\ IsSpace(s[Len(s)]) THEN rstrip(SubSeq(s, 1, Len(s) - 1)) ELSE s

strip(s) == rstrip(lstrip(s))

\* `u in t` for strings: u occurs in t as a contiguous run ("" in t is True)
IsSubstring(u, t) ==
  \E i \in 0..(Len(t) - Len(u)) : SubSeq(t, i + 1, i + Len(u)) = u

\* str.split(): the maximal runs of non-whitespace characters, in order
RECURSIVE SplitFrom(_, _, _)
SplitFrom(s, i, word) ==
  IF i > Len(s)
    THEN IF word = <<>> THEN <<>> ELSE <<word>>
    ELSE IF IsSpace(s[i])
           THEN (IF word = <<>> THEN <<>> ELSE <<word>>) \o SplitFrom(s, i + 1, <<>>)
           ELSE SplitFrom(s, i + 1, Append(word, s[i]))

split(s) == SplitFrom(s, 1, <<>>)

(***************************************************************************)
(* difflib.SequenceMatcher(None, a, b).ratio() for strings shorter than    *)
(* 200 characters (no junk, no "popular" elements).                        *)
(***************************************************************************)
\* find_longest_match(alo, ahi, blo, bhi): the blocks <<i, j, k>> with
\* a[i:i+k] = b[j:j+k] inside the two windows (0-based, half-open)
Blocks(a, b, alo, ahi, blo, bhi) ==
  { blk \in (alo..(ahi - 1)) \X (blo..(bhi - 1)) \X (1..(ahi - alo)) :
      /\ blk[1] + blk[3] <= ahi
      /\ blk[2] + blk[3] <= bhi
      /\ \A d \in 0..(blk[3] - 1) : a[blk[1] + d + 1] = b[blk[2] + d + 1] }

\* the longest block; of those the one starting earliest in a; of those the
\* one starting earliest in b
Better(x, y) ==
  \/ x[3] > y[3]
  \/ x[3] = y[3] /\ x[1] < y[1]
  \/ x[3] = y[3] /\ x[1] = y[1] /\ x[2] <= y[2]

find_longest_match(a, b, alo, ahi, blo, bhi) ==
  LET bs == Blocks(a, b, alo, ahi, blo, bhi)
  IN  IF bs = {} THEN <<alo, blo, 0>>
      ELSE CHOOSE x \in bs : \A y \in bs : Better(x, y)

\* get_matching_blocks(): the total size of the blocks found by splitting
\* around the longest match and recursing to its left and to its right
RECURSIVE MatchSize(_, _, _, _, _, _)
MatchSize(a, b, alo, ahi, blo, bhi) ==
  LET m == find_longest_match(a, b, alo, ahi, blo, bhi)
  IN  IF m[3] = 0 THEN 0
      ELSE m[3]
           + (IF alo < m[1] /\ blo < m[2]
                THEN MatchSize(a, b, alo, m[1], blo, m[2]) ELSE 0)
           + (IF m[1] + m[3] < ahi /\ m[2] + m[3] < bhi
                THEN MatchSize(a, b, m[1] + m[3], ahi, m[2] + m[3], bhi) ELSE 0)

\* ratio() >= num/den, with ratio() = 2.0 * matches / (len(a) + len(b)) and
\* 1.0 when both strings are empty
RatioAtLeast(a, b, num, den) ==
  LET total == Len(a) + Len(b)
      matches == MatchSize(a, b, 0, Len(a), 0, Len(b))
  IN  IF total = 0 THEN TRUE
      ELSE 2 * matches * den >= num * total

\* fuzzy_match(user_input, token)
fuzzy_match(user_input, token) ==
  IF user_input = <<>> \/ token = <<>> THEN FALSE
  ELSE
    LET u == strip(lower(user_input))
        t == strip(lower(token))
        words == split(t)
    IN  \/ u = t \/ IsSubstring(u, t) \/ IsSubstring(t, u)
        \/ \E n \in 1..Len(words) :
             Len(words[n]) > 2 /\ RatioAtLeast(u, words[n], 78, 100)
        \/ RatioAtLeast(u, t, 72, 100)

(***************************************************************************)
(* The state of an AdvancedPhishGame object (src/app.py:173-183), and of   *)
(* the Tk event loop it runs on.                                           *)
(***************************************************************************)
VARIABLES
  all_emails,     \* the templates of the run, in playing order
  total_levels,   \* number of levels of the run
  current_level,  \* 0-based index of the level being played
  score,
  lives,
  flags_found,    \* flags credited in this level, in discovery order
  results,        \* one record per finalized level
  elapsed,        \* whole seconds of time.time() - self.start_time
  paused,
  timer_id,       \* id returned by the last root.after(), or None
  scheduled,      \* ids of the after() callbacks Tk still has to run
  time_left,
  pb_maximum,     \* self.pb['maximum']
  btn_next,       \* state of the "Next Email" button
  game_over,      \* finish_game has shown the summary of this run
  call,           \* a call of fuzzy_match on its own: arguments and result
  idle            \* the player has stopped pressing keys and buttons for good

vars ==
  << all_emails, total_levels, current_level, score, lives, flags_found,
     results, elapsed, paused, timer_id, scheduled, time_left, pb_maximum,
     btn_next, game_over, call, idle >>

\* the object, as the handlers below read and update it
self ==
  [ all_emails |-> all_emails, total_levels |-> total_levels,
    current_level |-> current_level, score |-> score, lives |-> lives,
    flags_found |-> flags_found, results |-> results, elapsed |-> elapsed,
    paused |-> paused, timer_id |-> timer_id, scheduled |-> scheduled,
    time_left |-> time_left, pb_maximum |-> pb_maximum, btn_next |-> btn_next,
    game_over |-> game_over ]

None == 0
\* an id whose callback has run: it names nothing Tk could still cancel
Fired == -1

\* x in a list
InSeq(x, seq) == \E i \in 1..Len(seq) : seq[i] = x

\* [f for f in flags if f not in found]
RECURSIVE NotFound(_, _)
NotFound(flags, found) ==
  IF flags = <<>> THEN <<>>
  ELSE (IF InSeq(Head(flags), found) THEN <<>> ELSE <<Head(flags)>>)
       \o NotFound(Tail(flags), found)

(***************************************************************************)
(* Timer management (src/app.py:359-382).                                  *)
(***************************************************************************)
\* root.after(1000, self._tick): Tk hands out an id that names no callback
\* still scheduled; the model takes the smallest such number
after_id(s) ==
  CHOOSE i \in 1..(Cardinality(s.scheduled) + 1) :
    i \notin s.scheduled /\ \A j \in 1..(i - 1) : j \in s.scheduled

\* stop_timer: after_cancel of an id that has already run cancels nothing
stop_timer(s) ==
  IF s.timer_id # None
    THEN [s EXCEPT !.scheduled = @ \ {s.timer_id}, !.timer_id = None]
    ELSE s

\* finish_game: stop the timer and show the summary window
finish_game(s) == [stop_timer(s) EXCEPT !.game_over = TRUE]

\* the time limit load_level gives a level
level_time(level_index) == Max(MIN_TIME, BASE_TIME - (level_index * TIME_STEP))

RECURSIVE _tick(_)
RECURSIVE on_time_up(_)
RECURSIVE save_result_and_continue(_, _)
RECURSIVE load_level(_, _)
RECURSIVE start_timer(_)

\* start_timer without the stop_timer it begins with
start_timer_keeps_old(s) == _tick(s)

\* start_timer
start_timer(s) == _tick(stop_timer(s))

\* _tick that schedules the next callback without taking a second
_tick_keeps_time(s) ==
  IF s.paused THEN s
  ELSE IF s.time_left <= 0 THEN on_time_up(s)
  ELSE LET id == after_id(s)
       IN  [s EXCEPT !.timer_id = id,
                     !.scheduled = @ \cup {id}]

\* _tick
_tick(s) ==
  IF s.paused THEN s
  ELSE IF s.time_left <= 0 THEN on_time_up(s)
  ELSE LET id == after_id(s)
       IN  [s EXCEPT !.time_left = @ - 1,
                     !.timer_id = id,
                     !.scheduled = @ \cup {id}]

\* on_time_up without the life lost
on_time_up_keeps_life(s) == save_result_and_continue(s, TRUE)

\* on_time_up
on_time_up(s) ==
  save_result_and_continue([s EXCEPT !.lives = @ - 1], TRUE)

\* save_result_and_continue without the check for the last level
save_result_and_continue_past_last(s, skipped) ==
  LET current == s.all_emails[s.current_level + 1]
      missed == NotFound(current.flags, s.flags_found)
      s1 == [s EXCEPT !.results =
               Append(@, [title |-> current.title, found |-> s.flags_found,
                          missed |-> missed, skipped |-> skipped])]
      s2 == stop_timer(s1)
  IN  IF s2.lives <= 0 THEN finish_game(s2)
      ELSE load_level([s2 EXCEPT !.current_level = @ + 1], s2.current_level + 1)

\* save_result_and_continue
save_result_and_continue(s, skipped) ==
  LET current == s.all_emails[s.current_level + 1]
      missed == NotFound(current.flags, s.flags_found)
      s1 == [s EXCEPT !.results =
               Append(@, [title |-> current.title, found |-> s.flags_found,
                          missed |-> missed, skipped |-> skipped])]
      s2 == stop_timer(s1)
  IN  IF s2.lives <= 0 THEN finish_game(s2)
      ELSE IF s2.current_level + 1 >= s2.total_levels THEN finish_game(s2)
      ELSE load_level([s2 EXCEPT !.current_level = @ + 1], s2.current_level + 1)

\* load_level
load_level(s, level_index) ==
  LET s1 == [s EXCEPT !.current_level = level_index]
  IN  IF level_index >= s1.total_levels THEN finish_game(s1)
      ELSE start_timer([s1 EXCEPT !.flags_found = <<>>,
                                  !.btn_next = "disabled",
                                  !.time_left = level_time(level_index),
                                  !.pb_maximum = level_time(level_index),
                                  !.elapsed = 0])

(***************************************************************************)
(* Guesses (src/app.py:296-340).                                           *)
(***************************************************************************)
\* max(0, int((self.pb['maximum'] - elapsed) // 3)) where elapsed, the real
\* time.time() - self.start_time, lies strictly between whole and whole + 1
\* seconds: the floor of (maximum - elapsed) / 3 is then that of
\* (maximum - whole - 1) / 3
speed_bonus(maximum, whole) == Max(0, (maximum - whole - 1) \div SPEED_DIV)

\* max(0, self.score - cost): wrong guesses and hints never take the score
\* below 0
penalised_unfloored(points, cost) == points - cost

penalised(points, cost) == Max(0, points - cost)

\* the last flag, in the template's order, not yet found and matching
first_match_last(flags, found, user_text) ==
  LET hits == { i \in 1..Len(flags) :
                  ~InSeq(flags[i], found) /\ fuzzy_match(user_text, flags[i]) }
  IN  IF hits = {} THEN None
      ELSE CHOOSE i \in hits : \A j \in hits : i >= j

\* the first flag, in the template's order, matching, found or not
first_match_any(flags, found, user_text) ==
  LET hits == { i \in 1..Len(flags) : fuzzy_match(user_text, flags[i]) }
  IN  IF hits = {} THEN None
      ELSE CHOOSE i \in hits : \A j \in hits : i <= j

\* the first flag, in the template's order, not yet found and matching
first_match(flags, found, user_text) ==
  LET hits == { i \in 1..Len(flags) :
                  ~InSeq(flags[i], found) /\ fuzzy_match(user_text, flags[i]) }
  IN  IF hits = {} THEN None
      ELSE CHOOSE i \in hits : \A j \in hits : i <= j

\* on_submit, with the text of the entry field
on_submit(s, text) ==
  IF s.paused THEN s
  ELSE
    LET user_text == strip(text)
        email_obj == s.all_emails[s.current_level + 1]
        hit == first_match(email_obj.flags, s.flags_found, user_text)
        gained == BASE_POINTS + speed_bonus(s.pb_maximum, s.elapsed)
    IN  IF user_text = <<>> THEN s
        ELSE IF hit # None
          THEN LET s1 == [s EXCEPT !.flags_found = Append(@, email_obj.flags[hit]),
                                   !.score = @ + gained,
                                   !.btn_next = "normal"]
               IN  IF Len(s1.flags_found) = Len(email_obj.flags)
                     THEN stop_timer([s1 EXCEPT !.score = @ + BONUS_PERFECT])
                     ELSE s1
          ELSE [s EXCEPT !.score = penalised(@, WRONG_PENALTY)]

(***************************************************************************)
(* Hint, next, pause, restart (src/app.py:393-462).                        *)
(***************************************************************************)
\* min(20, HINT_COST_BASE + self.current_level * 3)
hint_cost(level) == Min(HINT_COST_MAX, HINT_COST_BASE + level * HINT_COST_STEP)

\* use_hint that enables the Next button whether or not a flag is found
use_hint_unlocks(s) ==
  IF s.paused THEN s
  ELSE
    LET email_obj == s.all_emails[s.current_level + 1]
        remaining == NotFound(email_obj.flags, s.flags_found)
    IN  IF remaining = <<>> THEN s
        ELSE [s EXCEPT !.score = penalised(@, hint_cost(s.current_level)),
                       !.btn_next = "normal"]

\* use_hint that counts the flag it shows as found
use_hint_marks_found(s) ==
  IF s.paused THEN s
  ELSE
    LET email_obj == s.all_emails[s.current_level + 1]
        remaining == NotFound(email_obj.flags, s.flags_found)
    IN  IF remaining = <<>> THEN s
        ELSE [s EXCEPT !.score = penalised(@, hint_cost(s.current_level)),
                       !.flags_found = Append(@, remaining[1]),
                       !.btn_next = "normal"]

\* use_hint: the flag drawn by random.choice is only displayed
use_hint(s) ==
  IF s.paused THEN s
  ELSE
    LET email_obj == s.all_emails[s.current_level + 1]
        remaining == NotFound(email_obj.flags, s.flags_found)
    IN  IF remaining = <<>> THEN s
        ELSE [s EXCEPT !.score = penalised(@, hint_cost(s.current_level)),
                       !.btn_next = IF Len(s.flags_found) >= 1 THEN "normal" ELSE @]

\* next_level without the paused check
next_level_ignores_pause(s) == save_result_and_continue(s, FALSE)

\* next_level that records the level as skipped
next_level_marks_skipped(s) ==
  IF s.paused THEN s ELSE save_result_and_continue(s, TRUE)

\* next_level
next_level(s) ==
  IF s.paused THEN s ELSE save_result_and_continue(s, FALSE)

\* toggle_pause that leaves the scheduled callback alone when pausing
toggle_pause_keeps_timer(s) ==
  IF s.paused
    THEN start_timer([s EXCEPT !.paused = FALSE])
    ELSE [s EXCEPT !.paused = TRUE]

\* toggle_pause
toggle_pause(s) ==
  IF s.paused
    THEN start_timer([s EXCEPT !.paused = FALSE])
    ELSE stop_timer([s EXCEPT !.paused = TRUE])

\* restart_game that leaves lives as they were
restart_game_keeps_lives(s, answer, shuffled) ==
  IF ~answer THEN s
  ELSE load_level([s EXCEPT !.score = 0,
                            !.current_level = 0, !.results = <<>>,
                            !.all_emails = shuffled, !.game_over = FALSE], 0)

\* restart_game: answer is what the player replies to askyesno, shuffled is
\* the order random.shuffle leaves self.all_emails in
restart_game(s, answer, shuffled) ==
  IF ~answer THEN s
  ELSE load_level([s EXCEPT !.score = 0, !.lives = START_LIVES,
                            !.current_level = 0, !.results = <<>>,
                            !.all_emails = shuffled, !.game_over = FALSE], 0)

(***************************************************************************)
(* The state machine.                                                      *)
(***************************************************************************)
\* the orders random.sample and random.shuffle can produce
Samples ==
  LET n == Min(Len(EMAILS), MAX_SAMPLE)
  IN  { [i \in 1..n |-> EMAILS[p[i]]] :
          p \in { q \in [1..n -> 1..Len(EMAILS)] :
                    \A i, j \in 1..n : i # j => q[i] # q[j] } }

Shuffles(emails) ==
  { [i \in 1..Len(emails) |-> emails[p[i]]] :
      p \in { q \in [1..Len(emails) -> 1..Len(emails)] :
                \A i, j \in 1..Len(emails) : i # j => q[i] # q[j] } }

\* the texts the player types: nothing, blanks, a substring of a flag, a
\* flag up to case (and a near miss of a word of another), no flag at all
Entries ==
  { <<>>, <<" ">>, <<"b">>, <<"a", "b">>, <<"c", "c">> }

\* the object as __init__ builds it, before load_level(0)
Constructed(sample) ==
  [ all_emails |-> sample, total_levels |-> Min(MAX_LEVELS, Len(sample)),
    current_level |-> 0, score |-> 0, lives |-> START_LIVES,
    flags_found |-> <<>>, results |-> <<>>, elapsed |-> 0, paused |-> FALSE,
    timer_id |-> None, scheduled |-> {}, time_left |-> BASE_TIME,
    pb_maximum |-> BASE_TIME, btn_next |-> "disabled", game_over |-> FALSE ]

\* the variables take the values of record s
Becomes(s) ==
  /\ all_emails' = s.all_emails
  /\ total_levels' = s.total_levels
  /\ current_level' = s.current_level
  /\ score' = s.score
  /\ lives' = s.lives
  /\ flags_found' = s.flags_found
  /\ results' = s.results
  /\ elapsed' = s.elapsed
  /\ paused' = s.paused
  /\ timer_id' = s.timer_id
  /\ scheduled' = s.scheduled
  /\ time_left' = s.time_left
  /\ pb_maximum' = s.pb_maximum
  /\ btn_next' = s.btn_next
  /\ game_over' = s.game_over

\* a handler has run and left state s; the model stops a session whose
\* history would grow past MaxResults
Step(s) ==
  \E after \in {s} :
    /\ Len(after.results) <= MaxResults
    /\ Becomes(after)
    /\ UNCHANGED << call, idle >>

\* the variables hold the values of record s
Holds(s) ==
  /\ all_emails = s.all_emails
  /\ total_levels = s.total_levels
  /\ current_level = s.current_level
  /\ score = s.score
  /\ lives = s.lives
  /\ flags_found = s.flags_found
  /\ results = s.results
  /\ elapsed = s.elapsed
  /\ paused = s.paused
  /\ timer_id = s.timer_id
  /\ scheduled = s.scheduled
  /\ time_left = s.time_left
  /\ pb_maximum = s.pb_maximum
  /\ btn_next = s.btn_next
  /\ game_over = s.game_over

\* no call of fuzzy_match on its own is under way
NoCall ==
  [user_input |-> <<>>, token |-> <<>>, returned |-> FALSE, outcome |-> FALSE]

Init ==
  /\ \E sample \in Samples : Holds(load_level(Constructed(sample), 0))
  /\ call = NoCall
  /\ idle = FALSE

\* the whole seconds from which speed_bonus is 0 for good: the model stops
\* counting the wall clock there
elapsed_cap(maximum) == Max(0, maximum - SPEED_DIV)

\* one more whole second on the wall clock
another_second(s) == [s EXCEPT !.elapsed = Min(@ + 1, elapsed_cap(s.pb_maximum))]

\* Submit button or <Return> in the entry field
Submit ==
  \E text \in Entries :
    LET s == on_submit(self, text) IN Step(s)

\* Hint button
Hint == LET s == use_hint(self) IN Step(s)

\* Next Email button, when enabled
NextEmail == btn_next = "normal" /\ Step(next_level(self))

\* Pause / Resume button
PauseResume == LET s == toggle_pause(self) IN Step(s)

\* Restart button
Restart ==
  \E answer \in BOOLEAN, shuffled \in Shuffles(all_emails) :
    Step(restart_game(self, answer, shuffled))

\* Tk runs callback id: the id then names nothing
callback_runs(s, id) ==
  [s EXCEPT !.scheduled = @ \ {id},
            !.timer_id = IF @ = id THEN Fired ELSE @]

\* a scheduled callback comes due, a second after root.after() set it
TimerFires ==
  \E id \in scheduled :
    Step(_tick(another_second(callback_runs(self, id))))

\* a second passes with no callback scheduled
TimePasses ==
  /\ scheduled = {}
  /\ elapsed < elapsed_cap(pb_maximum)
  /\ Step(another_second(self))

Next ==
  \/ Submit
  \/ Hint
  \/ NextEmail
  \/ PauseResume
  \/ Restart
  \/ TimerFires
  \/ TimePasses

Spec == Init /\ [][Next]_vars

(***************************************************************************)
(* The game left to itself: the player acts for a while and then stops,    *)
(* and Tk's event loop goes on running each after() callback when it is    *)
(* due (root.mainloop, src/app.py:541-543).                                *)
(***************************************************************************)
\* the last key or button press of the player is behind
PlayerStops ==
  /\ ~idle
  /\ idle' = TRUE
  /\ UNCHANGED << all_emails, total_levels, current_level, score, lives,
                  flags_found, results, elapsed, paused, timer_id, scheduled,
                  time_left, pb_maximum, btn_next, game_over, call >>

\* the player acts in a run that is not over
Playing == ~idle /\ ~game_over

LiveNext ==
  \/ Playing /\ Submit
  \/ Playing /\ Hint
  \/ Playing /\ NextEmail
  \/ Playing /\ PauseResume
  \/ Playing /\ Restart
  \/ PlayerStops
  \/ TimerFires
  \/ TimePasses

LiveSpec == Init /\ [][LiveNext]_vars /\ WF_vars(TimerFires)

(***************************************************************************)
(* fuzzy_match on its own (src/app.py:133-159): a call with arguments      *)
(* drawn from the strings of at most MaxLen characters, and its return.    *)
(***************************************************************************)
MaxLen == 2

\* the strings over Alphabet of at most n characters
Strings(n) == UNION { [1..k -> Alphabet] : k \in 0..n }

FuzzyInit ==
  /\ Holds(Constructed(EMAILS))
  /\ \E u, t \in Strings(MaxLen) :
       call = [user_input |-> u, token |-> t,
               returned |-> FALSE, outcome |-> FALSE]
  /\ idle = FALSE

\* the call returns
FuzzyReturns ==
  /\ ~call.returned
  /\ call' = [call EXCEPT !.returned = TRUE,
                          !.outcome = fuzzy_match(call.user_input, call.token)]
  /\ UNCHANGED << all_emails, total_levels, current_level, score, lives,
                  flags_found, results, elapsed, paused, timer_id, scheduled,
                  time_left, pb_maximum, btn_next, game_over, idle >>

FuzzyNext == FuzzyReturns

FuzzySpec == FuzzyInit /\ [][FuzzyNext]_vars

(***************************************************************************)
(* Properties.                                                             *)
(***************************************************************************)
\* the flags of the template being played
CurrentFlags == all_emails[current_level + 1].flags

\* every flag of the level has been found
AllFound == Len(flags_found) = Len(CurrentFlags)

\* C1: in every reachable state score is an integer >= 0.
C1_ScoreNeverNegative == score \in Nat

\* a level in which a flag was credited and penalties then took the score
\* back to 0
C1_Witness == score = 0 /\ Len(flags_found) = 1 /\ ~game_over

\* C2: once finish_game has run, no operation other than restart changes
\* score, lives or the history, and the history never holds more entries
\* than the run has levels.
C2_GameOverIsFinal ==
  /\ [](Len(results) <= total_levels)
  /\ [][(game_over /\ game_over') =>
          (score' = score /\ lives' = lives /\ results' = results)]_vars

\* C3: in every reachable state 0 <= lives <= the lives a run starts with.
C3_LivesInRange == lives \in 0..START_LIVES

\* the countdown of a level that is not over runs out: by the callback that
\* finds time_left at 0, or by a resume that finds it there
Expiry ==
  /\ ~game_over
  /\ time_left <= 0
  /\ TimerFires \/ (paused /\ PauseResume)

C5_FlagsOnceBonusOnce ==
  /\ [](/\ \A i, j \in 1..Len(flags_found) :
             i # j => flags_found[i] # flags_found[j]
        /\ \A i \in 1..Len(flags_found) : InSeq(flags_found[i], CurrentFlags))
  /\ [][/\ score' > score =>
             /\ Len(flags_found') = Len(flags_found) + 1
             /\ SubSeq(flags_found', 1, Len(flags_found)) = flags_found
             /\ ~InSeq(flags_found'[Len(flags_found')], flags_found)
             /\ score' = score + BASE_POINTS + speed_bonus(pb_maximum, elapsed)
                         + (IF Len(flags_found') = Len(CurrentFlags)
                              THEN BONUS_PERFECT ELSE 0)
        /\ Len(flags_found') = Len(flags_found) + 1 => score' > score
        /\ (AllFound /\ flags_found' = flags_found) => score' <= score]_vars

\* both flags of a level found, and a later guess penalised
C5_Witness ==
  /\ Len(CurrentFlags) = 2
  /\ AllFound
  /\ score = 2 * (BASE_POINTS + speed_bonus(pb_maximum, 0)) + BONUS_PERFECT
             - WRONG_PENALTY

\* C6: a pause step and a resume step both leave time_left as it was.
C6_PauseResumeKeepsTime ==
  [][(paused # paused') => time_left' = time_left]_vars

\* C7: while paused no callback is scheduled, and between the step that
\* sets paused and the step that clears it time_left changes only when a
\* restart loads level 0 anew.
C7_NoTickWhilePaused ==
  /\ [](paused => scheduled = {})
  /\ [][(paused /\ paused') => (time_left' = time_left \/ Restart)]_vars

\* paused in the middle of a countdown
C7_Witness ==
  /\ paused
  /\ ~game_over
  /\ time_left > 0
  /\ time_left < pb_maximum - 1

\* C8: in a level whose flags are all found the countdown stays stopped:
\* as long as the level is the current one, time_left does not change, no
\* life is lost and no callback is scheduled.
C8_PerfectLevelStaysStopped ==
  [][(AllFound /\ flags_found' = flags_found /\ current_level' = current_level)
       => (time_left' = time_left /\ lives' = lives /\ scheduled' = {})]_vars

\* C9: no guess is evaluated against a level whose time_left is 0: such a
\* level takes neither points nor a penalty nor a flag from a Submit.
C9_ExpiryPreemptsGuesses ==
  [][(time_left <= 0 /\ ~game_over /\ Submit)
       => (score' = score /\ flags_found' = flags_found)]_vars

\* C10: a guess that credits a flag adds 10 + max(0, floor((timeLimit -
\* elapsed) / 3)) with elapsed = timeLimit - time_left, before any perfect
\* bonus.
C10_AwardFromCountdown ==
  [][Len(flags_found') = Len(flags_found) + 1 =>
       score' = score + BASE_POINTS
                + Max(0, (pb_maximum - (pb_maximum - time_left)) \div SPEED_DIV)
                + (IF Len(flags_found') = Len(CurrentFlags)
                     THEN BONUS_PERFECT ELSE 0)]_vars

\* the flags of the level not found yet, any of which use_hint may show
Remaining == NotFound(CurrentFlags, flags_found)

\* C11: use_hint, not paused and with a flag left to find, sets score to
\* max(0, score - min(20, 6 + 3 * current_level)) and leaves flags_found,
\* lives, current_level, time_left, the history and the Next button as they
\* were; whichever flag it shows, typing that flag afterwards still credits
\* a flag and adds points.  With no flag left it changes nothing.
C11_HintOnlyCostsPoints ==
  LET r == use_hint(self)
      cost == Min(HINT_COST_MAX, HINT_COST_BASE + HINT_COST_STEP * current_level)
  IN  /\ (~paused /\ Remaining # <<>>) =>
           /\ r.score = Max(0, score - cost)
           /\ r.flags_found = flags_found
           /\ r.lives = lives
           /\ r.current_level = current_level
           /\ r.time_left = time_left
           /\ r.results = results
           /\ r.btn_next = btn_next
           /\ \A i \in 1..Len(Remaining) :
                LET g == on_submit(r, Remaining[i])
                IN  /\ ~InSeq(Remaining[i], r.flags_found)
                    /\ Len(g.flags_found) = Len(flags_found) + 1
                    /\ g.score >= r.score + BASE_POINTS
      /\ Remaining = <<>> => r = self

\* a level with one flag left and points to lose: the hint takes its full
\* cost, and typing the flag it shows then completes the level with the
\* perfect bonus
C11_Witness ==
  LET r == use_hint(self)
      g == on_submit(r, Remaining[1])
  IN  /\ ~paused /\ ~game_over
      /\ Len(CurrentFlags) = 2 /\ Len(Remaining) = 1
      /\ score >= hint_cost(current_level)
      /\ r.score = score - hint_cost(current_level)
      /\ Len(g.flags_found) = Len(CurrentFlags)
      /\ g.score >= r.score + BASE_POINTS + BONUS_PERFECT

\* C12: a toggle_pause step, pausing or resuming, leaves score, lives,
\* flags_found, current_level and the history unchanged.
C12_PauseTouchesOnlyTimer ==
  LET r == toggle_pause(self)
  IN  /\ r.score = score
      /\ r.lives = lives
      /\ r.flags_found = flags_found
      /\ r.current_level = current_level
      /\ r.results = results

\* C13: while paused, on_submit (whatever the text), use_hint and
\* next_level change nothing; on_submit with a text that is empty once
\* stripped changes nothing in any state.
C13_IgnoredInput ==
  /\ paused =>
       /\ \A text \in Entries : on_submit(self, text) = self
       /\ use_hint(self) = self
       /\ next_level(self) = self
  /\ \A text \in Entries : strip(text) = <<>> => on_submit(self, text) = self

\* paused where each of the three would otherwise act: a flag left to find,
\* points to lose and the Next button enabled
C13_Witness ==
  /\ paused /\ ~game_over
  /\ score > 0
  /\ Remaining # <<>>
  /\ btn_next = "normal"

\* C14: next_level, not paused, appends exactly one result with skipped
\* false, found = flags_found and missed = the flags not found, leaves score
\* and lives unchanged and cancels the countdown of the level (no callback
\* is left but the one a new level schedules); it then begins level
\* current_level + 1, or ends the game if the level was the last one or
\* lives is 0.
C14_AdvanceFinalizes ==
  LET r == next_level(self)
      last == r.results[Len(r.results)]
  IN  (~paused /\ lives >= 0) =>
        /\ Len(r.results) = Len(results) + 1
        /\ SubSeq(r.results, 1, Len(results)) = results
        /\ ~last.skipped
        /\ last.found = flags_found
        /\ Len(last.missed) = Len(CurrentFlags) - Len(flags_found)
        /\ \A i \in 1..Len(CurrentFlags) :
             InSeq(CurrentFlags[i], last.missed)
               <=> ~InSeq(CurrentFlags[i], flags_found)
        /\ r.score = score
        /\ r.lives = lives
        /\ Cardinality(r.scheduled) <= 1
        /\ r.scheduled \subseteq {r.timer_id}
        /\ IF lives = 0 \/ current_level + 1 >= total_levels
             THEN r.game_over /\ r.scheduled = {}
                  /\ r.current_level = current_level
             ELSE /\ r.game_over = game_over
                  /\ r.current_level = current_level + 1
                  /\ r.flags_found = <<>>
                  /\ r.btn_next = "disabled"
                  /\ r.pb_maximum = level_time(current_level + 1)

\* the second level begun by an advance from the first, one flag found and
\* one missed there
C14_Witness ==
  /\ ~game_over
  /\ current_level = 1
  /\ Len(results) = 1
  /\ ~results[1].skipped
  /\ Len(results[1].found) = 1
  /\ Len(results[1].missed) = 1

\* C15: load_level(i) with i < total_levels gives the level the time limit
\* max(MIN_TIME, BASE_TIME - 6 * i), time_left equal to that limit, no flag
\* found and the Next button disabled; with i >= total_levels it starts no
\* level and ends the game.
C15_LevelBegins ==
  \A i \in 0..total_levels :
    LET r == load_level(self, i)
    IN  IF i < total_levels
          THEN /\ r.current_level = i
               /\ r.pb_maximum = Max(MIN_TIME, BASE_TIME - TIME_STEP * i)
               /\ r.time_left = r.pb_maximum
               /\ r.flags_found = <<>>
               /\ r.btn_next = "disabled"
          ELSE r.game_over /\ r.scheduled = {}

C17_OneTimer ==
  /\ Cardinality(scheduled) <= 1
  /\ scheduled \subseteq {timer_id}
  /\ paused => scheduled = {}
  /\ finish_game(self).scheduled = {}
  /\ ~paused => toggle_pause(self).scheduled = {}
  /\ LET r == save_result_and_continue(self, FALSE)
     IN  Cardinality(r.scheduled) <= 1 /\ r.scheduled \subseteq {r.timer_id}
  /\ \A shuffled \in Shuffles(all_emails) :
       LET r == restart_game(self, TRUE, shuffled)
       IN  Cardinality(r.scheduled) <= 1 /\ r.scheduled \subseteq {r.timer_id}

\* the second level under way with its own callback scheduled
C17_Witness ==
  /\ ~game_over /\ ~paused
  /\ current_level = 1
  /\ scheduled = {timer_id}

\* C18: current_level is at least 0 and below total_levels, and total_levels
\* is at most the number of templates, so all_emails[current_level] exists
\* whenever a handler reads it.
C18_LevelIndexInRange ==
  /\ current_level \in 0..(total_levels - 1)
  /\ total_levels <= Len(all_emails)
  /\ total_levels <= MAX_LEVELS

\* the last level finalized: the game is over and the index stays on it
C18_Witness ==
  /\ game_over
  /\ current_level = total_levels - 1
  /\ Len(results) = total_levels
  /\ ~results[Len(results)].skipped

\* C19: fuzzy_match returns False whenever either argument is empty once
\* stripped, a guess or a token of blanks only included.
C19_BlankNeverMatches ==
  (/\ call.returned
   /\ strip(call.user_input) = <<>> \/ strip(call.token) = <<>>)
    => ~call.outcome

\* the flags of the level, by position, not yet found and matched by a text
Matching(user_text) ==
  { i \in 1..Len(CurrentFlags) :
      /\ ~InSeq(CurrentFlags[i], flags_found)
      /\ fuzzy_match(user_text, CurrentFlags[i]) }

\* C20: on_submit, not paused and with a text not empty once stripped,
\* credits the first flag in the template's order that is not yet found and
\* matches: exactly that flag is appended to flags_found and no unfound flag
\* before it matches; if no unfound flag matches, flags_found is unchanged
\* and score becomes max(0, score - 3).
C20_FirstUnfoundMatchWins ==
  ~paused =>
    \A text \in Entries :
      strip(text) # <<>> =>
        LET r == on_submit(self, text)
            hits == Matching(strip(text))
        IN  IF hits = {}
              THEN /\ r.flags_found = flags_found
                   /\ r.score = Max(0, score - WRONG_PENALTY)
              ELSE \E i \in hits :
                     /\ \A j \in 1..(i - 1) : j \notin hits
                     /\ r.flags_found = Append(flags_found, CurrentFlags[i])
                     /\ r.score >= score + BASE_POINTS

\* a text matching both flags of a level has been typed with neither found:
\* the first of them is the one credited, the second is still to find
C20_Witness ==
  /\ ~game_over
  /\ Len(CurrentFlags) = 2
  /\ flags_found = << CurrentFlags[1] >>
  /\ score > 0
  /\ \E text \in Entries :
       /\ fuzzy_match(strip(text), CurrentFlags[1])
       /\ Matching(strip(text)) = {2}

\* C21: whenever the Next button is enabled, flags_found of the level holds
\* at least one flag; load_level leaves the button disabled, and use_hint
\* with no flag found leaves it disabled; so every result with skipped false
\* has a found list that is not empty.
C21_NextNeedsAFind ==
  /\ btn_next = "normal" => Len(flags_found) >= 1
  /\ \A i \in 0..(total_levels - 1) : load_level(self, i).btn_next = "disabled"
  /\ flags_found = <<>> => use_hint(self).btn_next = "disabled"
  /\ \A k \in 1..Len(results) : ~results[k].skipped => results[k].found # <<>>

\* a level left through the Next button with a flag found, and the button
\* enabled again by a find in the level that followed
C21_Witness ==
  /\ ~game_over
  /\ current_level = 1
  /\ btn_next = "normal"
  /\ Len(flags_found) >= 1
  /\ Len(results) = 1
  /\ ~results[1].skipped
  /\ results[1].found # <<>>

\* a level under way: not paused, not over, a flag still to find
Active == ~paused /\ ~game_over /\ ~AllFound

\* the levels of the run that ended by expiry
Expired == { k \in 1..Len(results) : results[k].skipped }

====
